---- MODULE Spec2Model ----
(***************************************************************************)
(* Model of node-ddns-server (src/index.js): a token <-> hostname binding  *)
(* store kept as one file per key in two directories, the nsupdate script  *)
(* builders, the nsupdate executor and the three request handlers          *)
(* (/create, /update, /delete) run by a single-threaded event loop that    *)
(* interleaves requests at every await.                                    *)
(*                                                                         *)
(* Strings are sequences of one-character strings, so that toLowerCase,    *)
(* trim, the regular expressions and path.join are computed, not assumed.  *)
(***************************************************************************)
EXTENDS Integers, Sequences, FiniteSets, Bags, TLC

(***************************************************************************)
(* Bounds of the model.                                                    *)
(***************************************************************************)
\* number of requests that can be in flight at the same time
MaxReq == 2
\* number of tokens get_random_token hands out before /create is no longer taken
MaxTokens == 2

(***************************************************************************)
(* Characters and string primitives of the JavaScript runtime.             *)
(***************************************************************************)
UpperLetters == <<"A","B","C","D","E","F","G","H","I","J","K","L","M",
                  "N","O","P","Q","R","S","T","U","V","W","X","Y","Z">>
LowerLetters == <<"a","b","c","d","e","f","g","h","i","j","k","l","m",
                  "n","o","p","q","r","s","t","u","v","w","x","y","z">>
Digits == {"0","1","2","3","4","5","6","7","8","9"}
Whitespace == {" ", "\t", "\n", "\r"}

Range(s) == {s[i] : i \in 1..Len(s)}

\* String.prototype.toLowerCase, one character
LowerChar(c) ==
    IF \E i \in 1..Len(UpperLetters) : UpperLetters[i] = c
    THEN LowerLetters[CHOOSE i \in 1..Len(UpperLetters) : UpperLetters[i] = c]
    ELSE c

\* String.prototype.toLowerCase
toLowerCase(s) == [i \in 1..Len(s) |-> LowerChar(s[i])]

\* String.prototype.trim: strips leading and trailing whitespace
trim(s) ==
    LET keep == {i \in 1..Len(s) : s[i] \notin Whitespace}
    IN  IF keep = {} THEN <<>>
        ELSE LET lo == CHOOSE i \in keep : \A j \in keep : i <= j
                 hi == CHOOSE i \in keep : \A j \in keep : j <= i
             IN  SubSeq(s, lo, hi)

\* the character class [a-z0-9] under the /i flag
IsAlnum(c) == c \in Range(LowerLetters) \cup Range(UpperLetters) \cup Digits

\* the character class [a-f0-9] under the /i flag
IsHexChar(c) == c \in {"a","b","c","d","e","f","A","B","C","D","E","F"} \cup Digits

\* JavaScript truthiness of a string-or-null value (null and "" are both <<>>)
Truthy(s) == s # <<>>

(***************************************************************************)
(* Configuration (environment defaults).                                   *)
(***************************************************************************)
DDNS_ZONE == <<"e","x","a","m","p","l","e",".","c","o","m",".">>
DDNS_SERVER == <<"1","2","7",".","0",".","0",".","1">>
\* directories, as paths relative to DATA_DIR
TOKEN_DIR == << <<"t","o","k","e","n","s">> >>
HOSTNAME_DIR == << <<"h","o","s","t","n","a","m","e","s">> >>
\* the directories that exist: DATA_DIR, its parent (the working directory,
\* DATA_DIR being "./data"), and the two made by mkdirSync
Dirs == {<<>>, << <<".",".">> >>, TOKEN_DIR, HOSTNAME_DIR}

(***************************************************************************)
(* path.join: concatenates and normalises ("." and empty segments dropped, *)
(* ".." resolved, a trailing separator kept).                              *)
(***************************************************************************)
RECURSIVE SplitSlash(_)
SplitSlash(s) ==
    IF "/" \notin Range(s) THEN <<s>>
    ELSE LET i == CHOOSE k \in 1..Len(s) : s[k] = "/" /\ \A j \in 1..(k-1) : s[j] # "/"
         IN  <<SubSeq(s, 1, i-1)>> \o SplitSlash(SubSeq(s, i+1, Len(s)))

RECURSIVE Normalize(_, _)
Normalize(acc, segs) ==
    IF segs = <<>> THEN acc
    ELSE LET x == Head(segs)
             rest == Tail(segs)
         IN  IF x = <<>> \/ x = <<".">> THEN Normalize(acc, rest)
             ELSE IF x = <<".",".">>
                  THEN IF acc # <<>> /\ acc[Len(acc)] # <<".",".">>
                       THEN Normalize(SubSeq(acc, 1, Len(acc)-1), rest)
                       ELSE Normalize(Append(acc, x), rest)
                  ELSE Normalize(Append(acc, x), rest)

path_join(dir, name) ==
    [segs |-> Normalize(dir, SplitSlash(name)),
     trailing |-> name # <<>> /\ name[Len(name)] = "/"]

(***************************************************************************)
(* The file system under DATA_DIR: a function from the normalised path of  *)
(* a regular file to its content.  The operations are those of fs.promises *)
(* that the store uses; each returns what the promise settles with.        *)
(***************************************************************************)
Ok(v) == [ok |-> TRUE, val |-> v, msg |-> ""]
Err(m) == [ok |-> FALSE, val |-> <<>>, msg |-> m]

Parent(segs) == SubSeq(segs, 1, Len(segs) - 1)

IsFile(f, p) == p.segs \in DOMAIN f /\ ~p.trailing

\* fs.promises.access: resolves for an existing file or directory
fs_access(f, p) == p.segs \in Dirs \/ IsFile(f, p)

\* fs.promises.writeFile: creates or overwrites; fails on a directory or
\* when the parent directory does not exist
fs_canWrite(f, p) ==
    /\ ~p.trailing
    /\ p.segs # <<>>
    /\ p.segs \notin Dirs
    /\ Parent(p.segs) \in Dirs
fs_writeFile(f, p, content) ==
    IF fs_canWrite(f, p) THEN (p.segs :> content) @@ f ELSE f
fs_writeError(f, p) == IF p.segs \in Dirs THEN "EISDIR" ELSE "ENOENT"

\* fs.promises.readFile
fs_readFile(f, p) ==
    IF IsFile(f, p) THEN Ok(f[p.segs])
    ELSE IF p.segs \in Dirs THEN Err("EISDIR") ELSE Err("ENOENT")

\* fs.promises.unlink
fs_unlink(f, p) ==
    IF IsFile(f, p) THEN [q \in (DOMAIN f) \ {p.segs} |-> f[q]] ELSE f
fs_unlinkError(f, p) == IF p.segs \in Dirs THEN "EISDIR" ELSE "ENOENT"

(***************************************************************************)
(* Validators.                                                             *)
(***************************************************************************)
TokenLength == 32
HostnameMaxInterior == 61

\* the pattern without its {32}: any run of hex characters
TokenRegex_anyLength(token) ==
    \A i \in 1..Len(token) : IsHexChar(token[i])

\* /^[a-f0-9]{32}$/i
TokenRegex(token) ==
    /\ Len(token) = TokenLength
    /\ \A i \in 1..Len(token) : IsHexChar(token[i])

\* /^[a-z0-9][a-z0-9-]{0,61}[a-z0-9]$/i
HostnameRegex(s) ==
    /\ Len(s) >= 2
    /\ Len(s) - 2 <= HostnameMaxInterior
    /\ IsAlnum(s[1])
    /\ IsAlnum(s[Len(s)])
    /\ \A i \in 2..(Len(s)-1) : IsAlnum(s[i]) \/ s[i] = "-"

validate_hostname(hostname) ==
    LET lower_hostname == toLowerCase(hostname)
    IN  IF ~HostnameRegex(lower_hostname) THEN Err("Invalid hostname")
        ELSE Ok(lower_hostname)

\* net.isIP: 4 for a dotted quad of decimal octets without leading zeros,
\* 6 for an IPv6 literal, 0 otherwise.  IPv6 literals are recognised among
\* the ones the requests of this model can carry.
\* (v ranges over the one value of s, so that the argument is evaluated once
\* at each level of the recursion)
RECURSIVE SplitDot(_)
SplitDot(s) ==
    CHOOSE parts \in
        { IF "." \notin Range(v) THEN <<v>>
          ELSE LET i == CHOOSE k \in 1..Len(v) : v[k] = "." /\ \A j \in 1..(k-1) : v[j] # "."
               IN  <<SubSeq(v, 1, i-1)>> \o SplitDot(SubSeq(v, i+1, Len(v)))
          : v \in {s} } : TRUE

DigitValue(c) == CHOOSE n \in 0..9 : <<"0","1","2","3","4","5","6","7","8","9">>[n+1] = c

IsOctet(s) ==
    /\ Len(s) \in 1..3
    /\ \A i \in 1..Len(s) : s[i] \in Digits
    /\ (Len(s) > 1 => s[1] # "0")
    /\ LET v == IF Len(s) = 1 THEN DigitValue(s[1])
                ELSE IF Len(s) = 2 THEN 10 * DigitValue(s[1]) + DigitValue(s[2])
                ELSE 100 * DigitValue(s[1]) + 10 * DigitValue(s[2]) + DigitValue(s[3])
       IN  v <= 255

IsIPv4(s) ==
    \E parts \in {SplitDot(s)} :
        Len(parts) = 4 /\ \A i \in 1..4 : IsOctet(parts[i])

IPv6Literals == { <<":",":","1">>, <<":",":","a">>, <<":",":","A">> }

net_isIP(s) == IF IsIPv4(s) THEN 4 ELSE IF s \in IPv6Literals THEN 6 ELSE 0

validate_ip_address(ip, version) ==
    LET lower_ip == toLowerCase(ip)
        ip_version == net_isIP(lower_ip)
    IN  IF version # ip_version THEN Err("Invalid IP address for version")
        ELSE Ok(lower_ip)

(***************************************************************************)
(* nsupdate scripts: one record per line of the template literal.          *)
(***************************************************************************)
RecordTTL == 60

Fqdn(lower_hostname) == lower_hostname \o <<".">> \o DDNS_ZONE

ServerLine == [kind |-> "server", arg |-> DDNS_SERVER]
ZoneLine == [kind |-> "zone", arg |-> DDNS_ZONE]
DeleteLine(name, type) == [kind |-> "update delete", name |-> name, type |-> type]
AddLine(name, type, value) ==
    [kind |-> "update add", name |-> name, ttl |-> RecordTTL, type |-> type, value |-> value]
SendLine == [kind |-> "send"]

\* create_a_record with the delete line left out of the template
create_a_record_noDelete(hostname, ip) ==
    LET h == validate_hostname(hostname)
        v == validate_ip_address(ip, 4)
    IN  IF ~h.ok THEN h
        ELSE IF ~v.ok THEN v
        ELSE Ok(<< ServerLine, ZoneLine,
                   AddLine(Fqdn(h.val), "A", v.val),
                   SendLine >>)

\* the script of create_a_record, or the error its validation throws
create_a_record(hostname, ip) ==
    LET h == validate_hostname(hostname)
        v == validate_ip_address(ip, 4)
    IN  IF ~h.ok THEN h
        ELSE IF ~v.ok THEN v
        ELSE Ok(<< ServerLine, ZoneLine,
                   DeleteLine(Fqdn(h.val), "A"),
                   AddLine(Fqdn(h.val), "A", v.val),
                   SendLine >>)

\* create_aaaa_record with the template of create_a_record pasted in unchanged
create_aaaa_record_typeA(hostname, ip) ==
    LET h == validate_hostname(hostname)
        v == validate_ip_address(ip, 6)
    IN  IF ~h.ok THEN h
        ELSE IF ~v.ok THEN v
        ELSE Ok(<< ServerLine, ZoneLine,
                   DeleteLine(Fqdn(h.val), "A"),
                   AddLine(Fqdn(h.val), "A", v.val),
                   SendLine >>)

\* the script of create_aaaa_record, or the error its validation throws
create_aaaa_record(hostname, ip) ==
    LET h == validate_hostname(hostname)
        v == validate_ip_address(ip, 6)
    IN  IF ~h.ok THEN h
        ELSE IF ~v.ok THEN v
        ELSE Ok(<< ServerLine, ZoneLine,
                   DeleteLine(Fqdn(h.val), "AAAA"),
                   AddLine(Fqdn(h.val), "AAAA", v.val),
                   SendLine >>)

\* the script of delete_records, or the error its validation throws
delete_records(hostname) ==
    LET h == validate_hostname(hostname)
    IN  IF ~h.ok THEN h
        ELSE Ok(<< ServerLine, ZoneLine,
                   DeleteLine(Fqdn(h.val), "A"),
                   DeleteLine(Fqdn(h.val), "AAAA"),
                   SendLine >>)

(***************************************************************************)
(* The executor and the agent.  An outcome is how the spawned nsupdate     *)
(* ends; `applied` tells whether the server took the update before that.   *)
(***************************************************************************)
Outcomes ==
    { [event |-> "exit", code |-> 0, applied |-> TRUE],
      [event |-> "exit", code |-> 1, applied |-> FALSE],
      [event |-> "exit", code |-> -1, applied |-> FALSE],
      [event |-> "exit", code |-> -1, applied |-> TRUE],
      [event |-> "error", code |-> -1, applied |-> FALSE] }

\* an 'exit' listener that resolves whatever the code is
execute_nsupdate_anyExit(input, o) ==
    IF o.event = "error" THEN Err("spawn nsupdate failed")
    ELSE Ok(<<>>)

\* what the promise of execute_nsupdate settles with (code -1: null, killed by a signal)
execute_nsupdate(input, o) ==
    IF o.event = "error" THEN Err("spawn nsupdate failed")
    ELSE IF o.code = 0 THEN Ok(<<>>)
    ELSE Err("nsupdate exited with code and signal")

\* the records of the zone after the agent has run the script
RECURSIVE ApplyScript(_, _)
ApplyScript(zone, input) ==
    CHOOSE after \in
        { IF lines = <<>> THEN zone
          ELSE LET l == Head(lines)
                   z == IF l.kind = "update delete"
                        THEN {rr \in zone : ~(rr.name = l.name /\ rr.type = l.type)}
                        ELSE IF l.kind = "update add"
                        THEN zone \cup {[name |-> l.name, type |-> l.type, value |-> l.value]}
                        ELSE zone
               IN  ApplyScript(z, Tail(lines))
          : lines \in {input} } : TRUE

AgentEffect(zone, input, o) == IF o.applied THEN ApplyScript(zone, input) ELSE zone

\* get_random_token: 16 random bytes in lower-case hex.  The n-th token drawn
\* is distinct from all drawn before it (128-bit collisions are left out).
HexLetters == <<"a","b","c","d","e","f","0","1","2","3">>
get_random_token(n) == [j \in 1..TokenLength |-> HexLetters[n]]

(***************************************************************************)
(* State.                                                                  *)
(***************************************************************************)
VARIABLES
    fs,       \* the files under DATA_DIR: normalised path |-> content
    dns,      \* the A/AAAA records of the zone, as the agent left them
    req,      \* the requests in flight: the bag of the handlers' frames
    out,      \* the request the last step completed, with what it wrote to res
    issued,   \* the hostnames add_token_entry drew a token for, in order
    deleted   \* the tokens a /delete answered success for

vars == <<fs, dns, req, out, issued, deleted>>

\* a fresh frame; also the value of `out` when the last step completed no request
Idle ==
    [op |-> "idle", pc |-> "idle", hostname |-> <<>>, token |-> <<>>, ip |-> <<>>,
     has |-> FALSE, res |-> Ok(<<>>), txs |-> <<>>, fsops |-> <<>>,
     afterDelete |-> FALSE, statusCode |-> 200, resp |-> <<>>]

(***************************************************************************)
(* What requests can carry.                                                *)
(***************************************************************************)
H_ab == <<"a","b">>
H_ab_space == <<"a","b"," ">>
H_dot_ab == <<".","/","a","b">>
H_a_slash_b == <<"a","/","b">>
HostnameInputs == {<<>>, H_ab, H_ab_space, H_dot_ab, H_a_slash_b}

TokenPool == {get_random_token(n) : n \in 1..MaxTokens}
T_upper == [j \in 1..TokenLength |-> "A"]
T_short == [j \in 1..(TokenLength - 1) |-> "a"]
T_traversal == <<".",".","/","h","o","s","t","n","a","m","e","s","/","a","b">>
TokenInputs == TokenPool \cup {<<>>, T_upper, T_short, T_traversal}

IP_v4 == <<"1",".","2",".","3",".","4">>
IP_v4_padded == <<" ","1",".","2",".","3",".","4"," ">>
IP_v6 == <<":",":","A">>
IP_bad == <<"1",".","2">>
IpInputs == {<<>>, IP_v4, IP_v6, IP_bad}
XRealIpInputs == {<<>>, IP_v4_padded}
RemoteAddress == IP_v4

(***************************************************************************)
(* The store.                                                              *)
(***************************************************************************)
FsOp(name, p) == [op |-> name, path |-> p.segs]

has_hostname_entry(f, hostname) == fs_access(f, path_join(HOSTNAME_DIR, hostname))

\* the settled value of get_token_entry and the store accesses it made
get_token_entry(f, token) ==
    IF ~TokenRegex(token)
    THEN [res |-> Err("Invalid token"), ops |-> <<>>]
    ELSE LET filename == path_join(TOKEN_DIR, token)
             r == fs_readFile(f, filename)
         IN  [res |-> IF r.ok THEN Ok(trim(r.val)) ELSE r,
              ops |-> <<FsOp("readFile", filename)>>]

\* the settled value of delete_token_entry, the store after it, its accesses
delete_token_entry(f, token) ==
    IF ~TokenRegex(token)
    THEN [res |-> Err("Invalid token"), fs |-> f, ops |-> <<>>]
    ELSE LET filename == path_join(TOKEN_DIR, token)
         IN  [res |-> IF IsFile(f, filename) THEN Ok(<<>>)
                      ELSE Err(fs_unlinkError(f, filename)),
              fs |-> fs_unlink(f, filename),
              ops |-> <<FsOp("unlink", filename)>>]

add_token_entry(f, hostname, token) ==
    LET filename == path_join(TOKEN_DIR, token)
    IN  [res |-> IF fs_canWrite(f, filename) THEN Ok(token)
                 ELSE Err(fs_writeError(f, filename)),
         fs |-> fs_writeFile(f, filename, hostname),
         ops |-> <<FsOp("writeFile", filename)>>]

add_hostname_entry(f, hostname) ==
    LET filename == path_join(HOSTNAME_DIR, hostname)
    IN  [res |-> IF fs_canWrite(f, filename) THEN Ok(<<>>)
                 ELSE Err(fs_writeError(f, filename)),
         fs |-> fs_writeFile(f, filename, <<>>),
         ops |-> <<FsOp("writeFile", filename)>>]

delete_hostname_entry(f, hostname) ==
    LET filename == path_join(HOSTNAME_DIR, hostname)
    IN  [res |-> IF IsFile(f, filename) THEN Ok(<<>>)
                 ELSE Err(fs_unlinkError(f, filename)),
         fs |-> fs_unlink(f, filename),
         ops |-> <<FsOp("unlink", filename)>>]

(***************************************************************************)
(* The request handler: responses and the catch of createServer's callback.*)
(***************************************************************************)
\* create_json_response: res.end with the JSON body
create_json_response(q, json_data) ==
    [q EXCEPT !.resp = Append(@, [statusCode |-> q.statusCode, body |-> json_data])]

\* a catch block that logs the error and sets the status but sends nothing
HandlerCatch_silent(q, msg) == [q EXCEPT !.statusCode = 400]

\* the catch block: status 400 and {"error": e.message}
HandlerCatch(q, msg) ==
    create_json_response([q EXCEPT !.statusCode = 400], [error |-> <<msg>>])

\* the handler of frame q returns with frame q2
Finish(q, q2) ==
    /\ req' = req (-) SetToBag({q})
    /\ out' = [q2 EXCEPT !.pc = "done"]

\* the handler of frame q is suspended at the await named by q2.pc
Suspend(q, q2) ==
    /\ req' = (req (-) SetToBag({q})) (+) SetToBag({q2})
    /\ out' = Idle

Throw(q, q2, msg) == Finish(q, HandlerCatch(q2, msg))

\* a request is accepted while fewer than MaxReq are in flight
Accepts == BagCardinality(req) < MaxReq

\* frame q is in flight, suspended at pc in the handler of op
At(q, op, pc) == BagIn(q, req) /\ q.op = op /\ q.pc = pc

Init ==
    /\ fs = <<>>
    /\ dns = {}
    /\ req = EmptyBag
    /\ out = Idle
    /\ issued = <<>>
    /\ deleted = {}

(***************************************************************************)
(* /create: service_create.                                                *)
(***************************************************************************)
\* tokens that creates already past their hostname check may still draw
RECURSIVE CountDrawing(_)
CountDrawing(frames) ==
    IF frames = {} THEN 0
    ELSE LET q == CHOOSE x \in frames : TRUE
         IN  (IF q.op = "create" /\ q.pc = "has_hostname_entry" THEN CopiesIn(q, req) ELSE 0)
             + CountDrawing(frames \ {q})
Drawing == CountDrawing(BagToSet(req))

\* the request arrives; runs up to the await of has_hostname_entry
CreateStart(hostname) ==
    /\ Accepts
    /\ Len(issued) + Drawing < MaxTokens
    /\ LET q == [Idle EXCEPT !.op = "create", !.hostname = hostname]
           filename == path_join(HOSTNAME_DIR, hostname)
       IN  IF ~Truthy(hostname)
           THEN Throw(Idle, q, "You must provide hostname")
           ELSE Suspend(Idle, [q EXCEPT !.pc = "has_hostname_entry",
                                     !.has = has_hostname_entry(fs, hostname),
                                     !.fsops = Append(@, FsOp("access", filename))])
    /\ UNCHANGED <<fs, dns, issued, deleted>>

\* resumes after has_hostname_entry; runs up to the writeFile of add_token_entry
CreateAddToken(f) ==
    /\ At(f, "create", "has_hostname_entry")
    /\ LET q == f
           token == get_random_token(Len(issued) + 1)
           w == add_token_entry(fs, q.hostname, token)
       IN  IF q.has
           THEN /\ Throw(f, q, "Hostname already exists")
                /\ UNCHANGED <<fs, issued>>
           ELSE /\ fs' = w.fs
                /\ issued' = Append(issued, q.hostname)
                /\ Suspend(f, [q EXCEPT !.pc = "add_token_entry",
                                        !.token = token,
                                        !.res = w.res,
                                        !.fsops = @ \o w.ops])
    /\ UNCHANGED <<dns, deleted>>

\* resumes after add_token_entry; runs up to the writeFile of add_hostname_entry
CreateAddHostname(f) ==
    /\ At(f, "create", "add_token_entry")
    /\ LET q == f
           w == add_hostname_entry(fs, q.hostname)
       IN  IF ~q.res.ok
           THEN /\ Throw(f, q, q.res.msg)
                /\ UNCHANGED fs
           ELSE /\ fs' = w.fs
                /\ Suspend(f, [q EXCEPT !.pc = "add_hostname_entry",
                                        !.res = w.res,
                                        !.fsops = @ \o w.ops])
    /\ UNCHANGED <<dns, issued, deleted>>

\* resumes after add_hostname_entry; answers
CreateRespond(f) ==
    /\ At(f, "create", "add_hostname_entry")
    /\ LET q == f
       IN  IF ~q.res.ok
           THEN Throw(f, q, q.res.msg)
           ELSE Finish(f, create_json_response(q, [error |-> <<>>, token |-> q.token]))
    /\ UNCHANGED <<fs, dns, issued, deleted>>

(***************************************************************************)
(* /update: service_update.                                                *)
(***************************************************************************)
\* the request arrives; runs up to the readFile of get_token_entry.  The ip
\* the request carries is entered in the frame by the step that first
\* branches on it (UpdateExec).
UpdateStart(token) ==
    /\ Accepts
    /\ LET q == [Idle EXCEPT !.op = "update", !.token = token,
                             !.afterDelete = token \in deleted]
           g == get_token_entry(fs, token)
       IN  IF ~Truthy(token)
           THEN Throw(Idle, q, "You must provide token")
           ELSE IF g.ops = <<>>
           THEN Throw(Idle, q, g.res.msg)
           ELSE Suspend(Idle, [q EXCEPT !.pc = "get_token_entry",
                                     !.res = g.res,
                                     !.fsops = @ \o g.ops])
    /\ UNCHANGED <<fs, dns, issued, deleted>>

\* UpdateCheckHostname with the existence check done by opening the marker
\* for writing, which creates it
UpdateCheckHostname_touch(f) ==
    /\ At(f, "update", "get_token_entry")
    /\ LET q == f
           hostname == q.res.val
           filename == path_join(HOSTNAME_DIR, hostname)
       IN  IF ~q.res.ok
           THEN /\ Throw(f, q, q.res.msg)
                /\ UNCHANGED fs
           ELSE /\ fs' = add_hostname_entry(fs, hostname).fs
                /\ Suspend(f, [q EXCEPT !.pc = "has_hostname_entry",
                                        !.hostname = hostname,
                                        !.has = has_hostname_entry(fs, hostname),
                                        !.fsops = Append(@, FsOp("access", filename))])
    /\ UNCHANGED <<dns, issued, deleted>>

\* resumes after get_token_entry; runs up to the access of has_hostname_entry
UpdateCheckHostname(f) ==
    /\ At(f, "update", "get_token_entry")
    /\ LET q == f
           hostname == q.res.val
           filename == path_join(HOSTNAME_DIR, hostname)
       IN  IF ~q.res.ok
           THEN Throw(f, q, q.res.msg)
           ELSE Suspend(f, [q EXCEPT !.pc = "has_hostname_entry",
                                     !.hostname = hostname,
                                     !.has = has_hostname_entry(fs, hostname),
                                     !.fsops = Append(@, FsOp("access", filename))])
    /\ UNCHANGED <<fs, dns, issued, deleted>>

\* String(query.get("ip") || req.headers['x-real-ip'] || req.socket.remoteAddress).trim()
RequestIp(ipField, xRealIp) ==
    trim(IF Truthy(ipField) THEN ipField
         ELSE IF Truthy(xRealIp) THEN xRealIp
         ELSE RemoteAddress)

\* UpdateExec without the throw for a hostname that has no marker
UpdateExec_noMarkerCheck(f, ipField, xRealIp, o) ==
    /\ At(f, "update", "has_hostname_entry")
    /\ LET ip == RequestIp(ipField, xRealIp)
           q == [f EXCEPT !.ip = ip]
           version == net_isIP(ip)
           built == IF version = 4 THEN create_a_record(q.hostname, ip)
                    ELSE IF version = 6 THEN create_aaaa_record(q.hostname, ip)
                    ELSE Err("Invalid IP address")
       IN  IF ~built.ok
           THEN /\ Throw(f, q, built.msg)
                /\ UNCHANGED dns
           ELSE /\ dns' = AgentEffect(dns, built.val, o)
                /\ Suspend(f, [q EXCEPT !.pc = "execute_nsupdate",
                                        !.res = execute_nsupdate(built.val, o),
                                        !.txs = Append(@, [input |-> built.val,
                                                            settled |-> execute_nsupdate(built.val, o)])])
    /\ UNCHANGED <<fs, issued, deleted>>

\* resumes after has_hostname_entry; builds the script and runs the agent
UpdateExec(f, ipField, xRealIp, o) ==
    /\ At(f, "update", "has_hostname_entry")
    /\ LET ip == RequestIp(ipField, xRealIp)
           q == [f EXCEPT !.ip = ip]
           version == net_isIP(ip)
           built == IF version = 4 THEN create_a_record(q.hostname, ip)
                    ELSE IF version = 6 THEN create_aaaa_record(q.hostname, ip)
                    ELSE Err("Invalid IP address")
       IN  IF ~q.has
           THEN /\ Throw(f, q, "Invalid token")
                /\ UNCHANGED dns
           ELSE IF ~built.ok
           THEN /\ Throw(f, q, built.msg)
                /\ UNCHANGED dns
           ELSE /\ dns' = AgentEffect(dns, built.val, o)
                /\ Suspend(f, [q EXCEPT !.pc = "execute_nsupdate",
                                        !.res = execute_nsupdate(built.val, o),
                                        !.txs = Append(@, [input |-> built.val,
                                                            settled |-> execute_nsupdate(built.val, o)])])
    /\ UNCHANGED <<fs, issued, deleted>>

\* UpdateRespond for an executor with no 'error' listener: when the child
\* could not be started the promise is never settled
UpdateRespond_noErrorListener(f) ==
    /\ At(f, "update", "execute_nsupdate")
    /\ f.res.msg # "spawn nsupdate failed"
    /\ LET q == f
       IN  IF ~q.res.ok
           THEN Throw(f, q, q.res.msg)
           ELSE IF net_isIP(q.ip) = 4
           THEN Finish(f, create_json_response(q, [error |-> <<>>, a |-> q.ip]))
           ELSE Finish(f, create_json_response(q, [error |-> <<>>, aaaa |-> q.ip]))
    /\ UNCHANGED <<fs, dns, issued, deleted>>

\* resumes after execute_nsupdate; answers
UpdateRespond(f) ==
    /\ At(f, "update", "execute_nsupdate")
    /\ LET q == f
       IN  IF ~q.res.ok
           THEN Throw(f, q, q.res.msg)
           ELSE IF net_isIP(q.ip) = 4
           THEN Finish(f, create_json_response(q, [error |-> <<>>, a |-> q.ip]))
           ELSE Finish(f, create_json_response(q, [error |-> <<>>, aaaa |-> q.ip]))
    /\ UNCHANGED <<fs, dns, issued, deleted>>

(***************************************************************************)
(* /delete: service_delete.                                                *)
(***************************************************************************)
\* the request arrives; runs up to the readFile of get_token_entry
DeleteStart(token) ==
    /\ Accepts
    /\ LET q == [Idle EXCEPT !.op = "delete", !.token = token,
                             !.afterDelete = token \in deleted]
           g == get_token_entry(fs, token)
       IN  IF ~Truthy(token)
           THEN Throw(Idle, q, "You must provide token")
           ELSE IF g.ops = <<>>
           THEN Throw(Idle, q, g.res.msg)
           ELSE Suspend(Idle, [q EXCEPT !.pc = "get_token_entry",
                                     !.res = g.res,
                                     !.fsops = @ \o g.ops])
    /\ UNCHANGED <<fs, dns, issued, deleted>>

\* resumes after get_token_entry; builds the delete script and runs the agent
DeleteExec(f, o) ==
    /\ At(f, "delete", "get_token_entry")
    /\ LET q == f
           hostname == q.res.val
           built == delete_records(hostname)
       IN  IF ~q.res.ok
           THEN /\ Throw(f, q, q.res.msg)
                /\ UNCHANGED dns
           ELSE IF ~built.ok
           THEN /\ Throw(f, [q EXCEPT !.hostname = hostname], built.msg)
                /\ UNCHANGED dns
           ELSE /\ dns' = AgentEffect(dns, built.val, o)
                /\ Suspend(f, [q EXCEPT !.pc = "execute_nsupdate",
                                        !.hostname = hostname,
                                        !.res = execute_nsupdate(built.val, o),
                                        !.txs = Append(@, [input |-> built.val,
                                                            settled |-> execute_nsupdate(built.val, o)])])
    /\ UNCHANGED <<fs, issued, deleted>>

\* DeleteToken with the rejection of delete_records swallowed
DeleteToken_unchecked(f) ==
    /\ At(f, "delete", "execute_nsupdate")
    /\ LET q == f
           d == delete_token_entry(fs, q.token)
       IN  IF d.ops = <<>>
           THEN /\ Throw(f, q, d.res.msg)
                /\ UNCHANGED fs
           ELSE /\ fs' = d.fs
                /\ Suspend(f, [q EXCEPT !.pc = "delete_token_entry",
                                        !.res = d.res,
                                        !.fsops = @ \o d.ops])
    /\ UNCHANGED <<dns, issued, deleted>>

\* DeleteToken with the two removals in the other order: the marker first
DeleteToken_markerFirst(f) ==
    /\ At(f, "delete", "execute_nsupdate")
    /\ LET q == f
           d == delete_hostname_entry(fs, q.hostname)
       IN  IF ~q.res.ok
           THEN /\ Throw(f, q, q.res.msg)
                /\ UNCHANGED fs
           ELSE /\ fs' = d.fs
                /\ Suspend(f, [q EXCEPT !.pc = "delete_token_entry",
                                        !.res = d.res,
                                        !.fsops = @ \o d.ops])
    /\ UNCHANGED <<dns, issued, deleted>>

\* resumes after delete_records; runs up to the unlink of delete_token_entry
DeleteToken(f) ==
    /\ At(f, "delete", "execute_nsupdate")
    /\ LET q == f
           d == delete_token_entry(fs, q.token)
       IN  IF ~q.res.ok
           THEN /\ Throw(f, q, q.res.msg)
                /\ UNCHANGED fs
           ELSE IF d.ops = <<>>
           THEN /\ Throw(f, q, d.res.msg)
                /\ UNCHANGED fs
           ELSE /\ fs' = d.fs
                /\ Suspend(f, [q EXCEPT !.pc = "delete_token_entry",
                                        !.res = d.res,
                                        !.fsops = @ \o d.ops])
    /\ UNCHANGED <<dns, issued, deleted>>

\* resumes after delete_token_entry; runs up to the unlink of delete_hostname_entry
DeleteHostname(f) ==
    /\ At(f, "delete", "delete_token_entry")
    /\ LET q == f
           d == delete_hostname_entry(fs, q.hostname)
       IN  IF ~q.res.ok
           THEN /\ Throw(f, q, q.res.msg)
                /\ UNCHANGED fs
           ELSE /\ fs' = d.fs
                /\ Suspend(f, [q EXCEPT !.pc = "delete_hostname_entry",
                                        !.res = d.res,
                                        !.fsops = @ \o d.ops])
    /\ UNCHANGED <<dns, issued, deleted>>

\* resumes after delete_hostname_entry; answers
DeleteRespond(f) ==
    /\ At(f, "delete", "delete_hostname_entry")
    /\ LET q == f
       IN  IF ~q.res.ok
           THEN /\ Throw(f, q, q.res.msg)
                /\ UNCHANGED deleted
           ELSE /\ Finish(f, create_json_response(q, [error |-> <<>>]))
                /\ deleted' = deleted \cup {q.token}
    /\ UNCHANGED <<fs, dns, issued>>

(***************************************************************************)
(* Any other URL.                                                          *)
(***************************************************************************)
InvalidUrl ==
    /\ Accepts
    /\ Throw(Idle, [Idle EXCEPT !.op = "other"], "Invalid URL")
    /\ UNCHANGED <<fs, dns, issued, deleted>>

Next ==
    \/ \E hostname \in HostnameInputs : CreateStart(hostname)
    \/ \E f \in BagToSet(req) : CreateAddToken(f)
    \/ \E f \in BagToSet(req) : CreateAddHostname(f)
    \/ \E f \in BagToSet(req) : CreateRespond(f)
    \/ \E token \in TokenInputs : UpdateStart(token)
    \/ \E f \in BagToSet(req) : UpdateCheckHostname(f)
    \/ \E f \in BagToSet(req), ipField \in IpInputs, xRealIp \in XRealIpInputs, o \in Outcomes :
          UpdateExec(f, ipField, xRealIp, o)
    \/ \E f \in BagToSet(req) : UpdateRespond(f)
    \/ \E token \in TokenInputs : DeleteStart(token)
    \/ \E f \in BagToSet(req), o \in Outcomes : DeleteExec(f, o)
    \/ \E f \in BagToSet(req) : DeleteToken(f)
    \/ \E f \in BagToSet(req) : DeleteHostname(f)
    \/ \E f \in BagToSet(req) : DeleteRespond(f)
    \/ InvalidUrl

Spec == Init /\ [][Next]_vars

(***************************************************************************)
(* Requests served one at a time: a request is accepted only when no other *)
(* is in flight.                                                           *)
(***************************************************************************)
NextSeq ==
    \/ \E hostname \in HostnameInputs : req = EmptyBag /\ CreateStart(hostname)
    \/ \E f \in BagToSet(req) : CreateAddToken(f)
    \/ \E f \in BagToSet(req) : CreateAddHostname(f)
    \/ \E f \in BagToSet(req) : CreateRespond(f)
    \/ \E token \in TokenInputs : req = EmptyBag /\ UpdateStart(token)
    \/ \E f \in BagToSet(req) : UpdateCheckHostname(f)
    \/ \E f \in BagToSet(req), ipField \in IpInputs, xRealIp \in XRealIpInputs, o \in Outcomes :
          UpdateExec(f, ipField, xRealIp, o)
    \/ \E f \in BagToSet(req) : UpdateRespond(f)
    \/ \E token \in TokenInputs : req = EmptyBag /\ DeleteStart(token)
    \/ \E f \in BagToSet(req), o \in Outcomes : DeleteExec(f, o)
    \/ \E f \in BagToSet(req) : DeleteToken(f)
    \/ \E f \in BagToSet(req) : DeleteHostname(f)
    \/ \E f \in BagToSet(req) : DeleteRespond(f)
    \/ req = EmptyBag /\ InvalidUrl

SpecSeq == Init /\ [][NextSeq]_vars

(***************************************************************************)
(* The server with a fair event loop.  A continuation that is ready (the   *)
(* awaited store access has completed, the child has exited or failed to   *)
(* start) is eventually run.  A request is named by its operation and the  *)
(* hostname or token it carries; a request is accepted while no request of *)
(* the same name is in flight, so that a name stands for one request.      *)
(***************************************************************************)
Key(q) == IF q.op = "create" THEN q.hostname ELSE q.token

LiveHostnames == {<<>>, H_ab, H_a_slash_b}
LiveTokens == TokenPool \cup {<<>>, T_short}
LiveIps == {IP_v6}

Names ==
    ({"create"} \X (LiveHostnames \ {<<>>}))
    \cup ({"update", "delete"} \X {t \in LiveTokens : TokenRegex(t)})

InFlight(c) == \E q \in BagToSet(req) : q.op = c[1] /\ Key(q) = c[2]

\* the continuation of request f runs (an /update carries an ip that is no
\* address, or one of LiveIps)
Continue(f) ==
    \/ CreateAddToken(f)
    \/ CreateAddHostname(f)
    \/ CreateRespond(f)
    \/ UpdateCheckHostname(f)
    \/ \E o \in Outcomes : UpdateExec(f, IP_bad, <<>>, o)
    \/ \E ipField \in LiveIps, o \in Outcomes : UpdateExec(f, ipField, <<>>, o)
    \/ UpdateRespond(f)
    \/ \E o \in Outcomes : DeleteExec(f, o)
    \/ DeleteToken(f)
    \/ DeleteHostname(f)
    \/ DeleteRespond(f)

ContinueNamed(c) ==
    \E f \in BagToSet(req) : f.op = c[1] /\ Key(f) = c[2] /\ Continue(f)

NextLive ==
    \/ \E hostname \in LiveHostnames :
          ~InFlight(<<"create", hostname>>) /\ CreateStart(hostname)
    \/ \E token \in LiveTokens :
          ~InFlight(<<"update", token>>) /\ UpdateStart(token)
    \/ \E token \in LiveTokens :
          ~InFlight(<<"delete", token>>) /\ DeleteStart(token)
    \/ InvalidUrl
    \/ \E f \in BagToSet(req) : Continue(f)

Fairness == \A c \in Names : WF_vars(ContinueNamed(c))

SpecLive == Init /\ [][NextLive]_vars /\ Fairness

(***************************************************************************)
(* The script builders on their own: a hostname and an address are drawn,  *)
(* and one of the three builders is applied to them.  `out` holds the      *)
(* arguments and, after the step, what the builder returned.               *)
(***************************************************************************)
H_Ab == <<"A","b">>
H_a_b == <<"a","-","b">>
H_a == <<"a">>
H_dash_ab == <<"-","a","b">>
H_ab_dash == <<"a","b","-">>
H_a_dot_b == <<"a",".","b">>
H_63 == [j \in 1..(HostnameMaxInterior + 2) |-> "x"]
H_64 == [j \in 1..(HostnameMaxInterior + 3) |-> "x"]
BuildHostnames ==
    {H_ab, H_Ab, H_a_b, H_a, H_dash_ab, H_ab_dash, H_a_dot_b, H_ab_space, H_63, H_64}
IP_v4_max == <<"2","5","5",".","0",".","0",".","1">>
IP_v4_over == <<"2","5","6",".","0",".","0",".","1">>
IP_v6_lower == <<":",":","1">>
BuildIps == {IP_v4, IP_v4_max, IP_v4_over, IP_v4_padded, IP_v6, IP_v6_lower, IP_bad}

InitBuild ==
    /\ fs = <<>>
    /\ dns = {}
    /\ req = EmptyBag
    /\ issued = <<>>
    /\ deleted = {}
    /\ \E hostname \in BuildHostnames, ip \in BuildIps :
          out = [Idle EXCEPT !.op = "build", !.hostname = hostname, !.ip = ip]

BuildCreateA ==
    /\ out.op = "build"
    /\ out' = [out EXCEPT !.op = "create_a_record",
                          !.res = create_a_record(out.hostname, out.ip)]
    /\ UNCHANGED <<fs, dns, req, issued, deleted>>

BuildCreateAAAA ==
    /\ out.op = "build"
    /\ out' = [out EXCEPT !.op = "create_aaaa_record",
                          !.res = create_aaaa_record(out.hostname, out.ip)]
    /\ UNCHANGED <<fs, dns, req, issued, deleted>>

BuildDelete ==
    /\ out.op = "build"
    /\ out' = [out EXCEPT !.op = "delete_records",
                          !.res = delete_records(out.hostname)]
    /\ UNCHANGED <<fs, dns, req, issued, deleted>>

NextBuild == BuildCreateA \/ BuildCreateAAAA \/ BuildDelete

SpecBuild == InitBuild /\ [][NextBuild]_vars

(***************************************************************************)
(* The executor on its own: execute_nsupdate is called with a script one   *)
(* of the builders made, one call after the other.  ExecuteStart is the    *)
(* body of the promise (spawn, the two listeners, stdin.write, stdin.end); *)
(* ChildEvent is the listener that runs when the child emits 'error' (it   *)
(* could not be started) or 'exit'.  `out` holds the call: the script on   *)
(* the child's stdin, the events the child emitted, and what the promise   *)
(* settled with.                                                           *)
(***************************************************************************)
ExecInputs ==
    LET built == {create_a_record(h, ip) : h \in BuildHostnames, ip \in BuildIps}
                 \cup {create_aaaa_record(h, ip) : h \in BuildHostnames, ip \in BuildIps}
                 \cup {delete_records(h) : h \in BuildHostnames}
    IN  {b.val : b \in {x \in built : x.ok}}

InitExec ==
    /\ fs = <<>>
    /\ dns = {}
    /\ req = EmptyBag
    /\ out = [op |-> "execute_nsupdate", pc |-> "idle", stdin |-> <<>>,
              events |-> <<>>, settled |-> <<>>]
    /\ issued = <<>>
    /\ deleted = {}

\* the promise is created: the child is spawned and handed the script
ExecuteStart(input) ==
    /\ out.pc \in {"idle", "settled"}
    /\ out' = [op |-> "execute_nsupdate", pc |-> "pending", stdin |-> input,
               events |-> <<>>, settled |-> <<>>]
    /\ UNCHANGED <<fs, dns, req, issued, deleted>>

\* the child emits 'error' or 'exit'; the listener settles the promise
ChildEvent(o) ==
    /\ out.pc = "pending"
    /\ dns' = AgentEffect(dns, out.stdin, o)
    /\ out' = [out EXCEPT !.pc = "settled",
                          !.events = Append(@, o),
                          !.settled = Append(@, execute_nsupdate(out.stdin, o))]
    /\ UNCHANGED <<fs, req, issued, deleted>>

NextExec ==
    \/ \E input \in ExecInputs : ExecuteStart(input)
    \/ \E o \in Outcomes : ChildEvent(o)

SpecExec == InitExec /\ [][NextExec]_vars

(***************************************************************************)
(* Vocabulary of the properties.                                           *)
(***************************************************************************)
\* the token entries and the hostname markers of the store
TokenEntries == {p \in DOMAIN fs : Len(p) = 2 /\ p[1] = TOKEN_DIR[1]}
HostnameMarkers == {p \in DOMAIN fs : Len(p) = 2 /\ p[1] = HOSTNAME_DIR[1]}

\* the requests in flight and the one the last step completed
Completed == IF out.pc = "done" THEN {out} ELSE {}
Requests == BagToSet(req) \cup Completed

Succeeded(q) == q.pc = "done" /\ Len(q.resp) = 1 /\ q.resp[1].body.error = <<>>
Failed(q) == q.pc = "done" /\ Len(q.resp) = 1 /\ q.resp[1].body.error # <<>>
FailedWith(q, msg) == q.pc = "done" /\ Len(q.resp) = 1 /\ q.resp[1].body.error = <<msg>>

\* a hostname in the form the data model gives it: lower case, 2 to 63
\* characters, alphanumeric at both ends, alphanumeric or hyphen inside
LowerAlnum == Range(LowerLetters) \cup Digits
ValidHostname(h) ==
    /\ Len(h) \in 2..63
    /\ h[1] \in LowerAlnum
    /\ h[Len(h)] \in LowerAlnum
    /\ \A i \in 1..Len(h) : h[i] \in LowerAlnum \cup {"-"}

\* exactly 32 hexadecimal characters
HexChars == {"0","1","2","3","4","5","6","7","8","9",
             "a","b","c","d","e","f","A","B","C","D","E","F"}
Hex32(t) == Len(t) = 32 /\ \A i \in 1..Len(t) : t[i] \in HexChars

\* the tokens drawn for hostname h whose /delete has not answered success
LiveTokensFor(h) ==
    {get_random_token(n) : n \in {k \in 1..Len(issued) : issued[k] = h}} \ deleted

\* the hostname the token was drawn for
IssuedFor(token) ==
    issued[CHOOSE n \in 1..Len(issued) : get_random_token(n) = token]

StoreWrites(q) == {i \in 1..Len(q.fsops) : q.fsops[i].op \in {"writeFile", "unlink"}}
TokenAccesses(q) ==
    {i \in 1..Len(q.fsops) : q.fsops[i].op \in {"readFile", "unlink"}}

(***************************************************************************)
(* C1.  Uniqueness: in every reachable state, with create, update and      *)
(* delete requests interleaved in any way, no two token entries map to the *)
(* same hostname.  The code does not keep this: two /create requests for   *)
(* one hostname that both pass has_hostname_entry before either writes     *)
(* both draw a token.                                                      *)
(***************************************************************************)
C1_Uniqueness ==
    \A t1, t2 \in TokenEntries : t1 # t2 => fs[t1] # fs[t2]

(***************************************************************************)
(* C2.  With requests served one at a time, for a valid hostname h: a      *)
(* /create for h succeeds when no binding drawn for h is live, and fails   *)
(* with "Hostname already exists", writing nothing, when one is.  The code *)
(* does not keep this: /create stores the hostname as sent, so a marker    *)
(* for h can be made, or removed, through a hostname that is not h.        *)
(***************************************************************************)
C2_CreateOnce ==
    \A q \in Completed :
        (q.op = "create" /\ ValidHostname(q.hostname)) =>
            IF LiveTokensFor(q.hostname) \ {q.token} = {}
            THEN Succeeded(q) /\ LiveTokensFor(q.hostname) = {q.token}
            ELSE FailedWith(q, "Hostname already exists") /\ StoreWrites(q) = {}

(***************************************************************************)
(* C3.  Binding consistency: in every state, a hostname marker exists if   *)
(* and only if some token entry maps to that hostname.  The code does not  *)
(* keep this: /create writes the token entry and the marker in two steps   *)
(* with an await between them, and /delete removes them in two steps.      *)
(***************************************************************************)
C3_BindingConsistency ==
    /\ \A t \in TokenEntries : \E m \in HostnameMarkers : m[2] = fs[t]
    /\ \A m \in HostnameMarkers : \E t \in TokenEntries : fs[t] = m[2]

(***************************************************************************)
(* C4.  A token that is not exactly 32 hexadecimal characters is never     *)
(* looked up or removed: the /update or /delete carrying it reads and      *)
(* unlinks nothing, executes no transaction, and ends with an error        *)
(* without ever being suspended.                                           *)
(***************************************************************************)
C4_MalformedTokenNeverLookedUp ==
    \A q \in Requests :
        (q.op \in {"update", "delete"} /\ ~Hex32(q.token)) =>
            /\ TokenAccesses(q) = {}
            /\ q.txs = <<>>
            /\ Failed(q)
            /\ q.resp[1].statusCode = 400

C4_Witness ==
    /\ out.op = "delete"
    /\ out.token = T_traversal
    /\ FailedWith(out, "Invalid token")
    /\ fs # <<>>

(***************************************************************************)
(* C5.  With requests served one at a time: once /delete has answered      *)
(* success for token T drawn by create(h), every later /update or /delete  *)
(* carrying T fails without executing a transaction, and h is claimable    *)
(* again (has_hostname_entry(h) is false when /delete answers).  The code  *)
(* does not keep the second half: /delete removes the marker of the        *)
(* trimmed hostname it read back, which need not be the marker /create     *)
(* wrote for h.                                                            *)
(***************************************************************************)
C5_DeleteThenGone ==
    /\ \A q \in Requests :
          q.afterDelete => q.txs = <<>> /\ (q.pc = "done" => Failed(q))
    /\ \A q \in Completed :
          (q.op = "delete" /\ Succeeded(q)) =>
              ~has_hostname_entry(fs, IssuedFor(q.token))

(***************************************************************************)
(* C6.  An /update executes at most one transaction, and every record line *)
(* of it has the type of the request's ip: A for an IPv4 address, AAAA for *)
(* an IPv6 address; an /update that answers success has executed exactly   *)
(* one; for an ip that is neither, no transaction is built or executed and *)
(* the request fails.                                                      *)
(***************************************************************************)
RecordTypes(input) ==
    {input[i].type : i \in {k \in 1..Len(input) : input[k].kind \in {"update delete", "update add"}}}

C6_UpdateRecordType ==
    \A q \in Requests :
        q.op = "update" =>
            /\ Len(q.txs) <= 1
            /\ (net_isIP(q.ip) = 4 => \A i \in 1..Len(q.txs) : RecordTypes(q.txs[i].input) = {"A"})
            /\ (net_isIP(q.ip) = 6 => \A i \in 1..Len(q.txs) : RecordTypes(q.txs[i].input) = {"AAAA"})
            /\ (net_isIP(q.ip) = 0 => q.txs = <<>> /\ ~Succeeded(q))
            /\ (Succeeded(q) => Len(q.txs) = 1)

C6_Witness ==
    /\ out.op = "update"
    /\ Succeeded(out)
    /\ out.ip = IP_v6
    /\ Len(out.txs) = 1
    /\ RecordTypes(out.txs[1].input) = {"AAAA"}

(***************************************************************************)
(* C7.  No step of an /update request changes the store: the files under   *)
(* tokens and hostnames are the same after the step as before it.          *)
(***************************************************************************)
\* the step is one of an /update request: it leaves an /update frame, enters one, or completes one
UpdateStep ==
    \/ \E q \in BagToSet(req) \cup BagToSet(req') :
          q.op = "update" /\ CopiesIn(q, req) # CopiesIn(q, req')
    \/ out'.op = "update"

C7_UpdateLeavesStore == [][UpdateStep => fs' = fs]_vars

C7_Witness ==
    /\ out.op = "update"
    /\ Succeeded(out)
    /\ TokenEntries # {}
    /\ HostnameMarkers # {}

(***************************************************************************)
(* C8.  A request whose executor call failed has made exactly that one     *)
(* call (no retry), has written and removed nothing in the store, goes on  *)
(* to no further store access, and ends with an error response.            *)
(***************************************************************************)
ExecFailed(q) == \E i \in 1..Len(q.txs) : ~q.txs[i].settled.ok

C8_ExecFailureLeavesStore ==
    \A q \in Requests :
        ExecFailed(q) =>
            /\ Len(q.txs) = 1
            /\ StoreWrites(q) = {}
            /\ q.pc \in {"execute_nsupdate", "done"}
            /\ (q.pc = "done" => Failed(q) /\ q.resp[1].statusCode = 400)

C8_Witness ==
    /\ out.op = "delete"
    /\ ExecFailed(out)
    /\ Failed(out)
    /\ path_join(TOKEN_DIR, out.token).segs \in TokenEntries

(***************************************************************************)
(* C9.  Every request that ends has written exactly one response: either   *)
(* status 200 with error null and the fields of its operation, or status   *)
(* 400 with a non-null error message and nothing else; a request still in  *)
(* flight has written none.                                                *)
(***************************************************************************)
SuccessBody(q) ==
    LET body == q.resp[1].body
    IN  /\ body.error = <<>>
        /\ q.resp[1].statusCode = 200
        /\ \/ q.op = "create" /\ DOMAIN body = {"error", "token"} /\ body.token = q.token
           \/ q.op = "update" /\ DOMAIN body = {"error", "a"} /\ body.a = q.ip
           \/ q.op = "update" /\ DOMAIN body = {"error", "aaaa"} /\ body.aaaa = q.ip
           \/ q.op = "delete" /\ DOMAIN body = {"error"}

FailureBody(q) ==
    LET body == q.resp[1].body
    IN  /\ DOMAIN body = {"error"}
        /\ Len(body.error) = 1
        /\ q.resp[1].statusCode = 400

C9_OneResponse ==
    /\ \A q \in BagToSet(req) : q.resp = <<>>
    /\ \A q \in Completed :
          /\ q.op \in {"create", "update", "delete", "other"}
          /\ Len(q.resp) = 1
          /\ SuccessBody(q) \/ FailureBody(q)

C9_Witness ==
    /\ out.op = "create"
    /\ out.hostname = H_a_slash_b
    /\ FailedWith(out, "ENOENT")
    /\ Len(out.resp) = 1

(***************************************************************************)
(* C10.  The script built for a create-A or create-AAAA transaction of a   *)
(* validated hostname h and address v is: server, zone, one                *)
(* "update delete h.<zone> IN <TYPE>", one "update add h.<zone> 60 IN      *)
(* <TYPE> v" of the same type, send.  The script built for delete-all is:  *)
(* server, zone, a delete of A, a delete of AAAA, send, and no add.        *)
(***************************************************************************)
Kinds(input) == [i \in 1..Len(input) |-> input[i].kind]

IsCreateScript(input, type, h, v) ==
    /\ Kinds(input) = <<"server", "zone", "update delete", "update add", "send">>
    /\ input[1].arg = DDNS_SERVER
    /\ input[2].arg = DDNS_ZONE
    /\ input[3].name = h \o <<".">> \o DDNS_ZONE
    /\ input[3].type = type
    /\ input[4].name = h \o <<".">> \o DDNS_ZONE
    /\ input[4].ttl = 60
    /\ input[4].type = type
    /\ input[4].value = v

IsDeleteAllScript(input, h) ==
    /\ Kinds(input) = <<"server", "zone", "update delete", "update delete", "send">>
    /\ input[1].arg = DDNS_SERVER
    /\ input[2].arg = DDNS_ZONE
    /\ input[3].name = h \o <<".">> \o DDNS_ZONE
    /\ input[4].name = h \o <<".">> \o DDNS_ZONE
    /\ {input[3].type, input[4].type} = {"A", "AAAA"}

C10_ScriptShape ==
    LET h == toLowerCase(out.hostname)
        v == toLowerCase(out.ip)
    IN  /\ out.op = "create_a_record" =>
              IF ValidHostname(h) /\ net_isIP(v) = 4
              THEN out.res.ok /\ IsCreateScript(out.res.val, "A", h, v)
              ELSE ~out.res.ok
        /\ out.op = "create_aaaa_record" =>
              IF ValidHostname(h) /\ net_isIP(v) = 6
              THEN out.res.ok /\ IsCreateScript(out.res.val, "AAAA", h, v)
              ELSE ~out.res.ok
        /\ out.op = "delete_records" =>
              IF ValidHostname(h)
              THEN out.res.ok /\ IsDeleteAllScript(out.res.val, h)
              ELSE ~out.res.ok

C10_Witness ==
    /\ out.op = "create_aaaa_record"
    /\ out.hostname = H_Ab
    /\ out.ip = IP_v6
    /\ out.res.ok
    /\ IsCreateScript(out.res.val, "AAAA", H_ab, <<":",":","a">>)

(***************************************************************************)
(* C11.  One call of execute_nsupdate settles exactly once, and not before *)
(* the child has emitted 'exit' or 'error': it resolves if and only if the *)
(* child exited with code 0, and rejects when the child exited with        *)
(* another code, was ended by a signal (code null), or could not be        *)
(* started.                                                                *)
(***************************************************************************)
C11_ExecutorSettlesOnce ==
    /\ Len(out.settled) = Len(out.events)
    /\ Len(out.settled) <= 1
    /\ out.pc = "pending" => out.settled = <<>>
    /\ out.pc = "settled" =>
          /\ Len(out.settled) = 1
          /\ out.settled[1].ok <=> (out.events[1].event = "exit" /\ out.events[1].code = 0)

C11_Witness ==
    /\ out.pc = "settled"
    /\ out.events[1].event = "exit"
    /\ out.events[1].code = -1
    /\ out.events[1].applied
    /\ ~out.settled[1].ok
    /\ dns # {}

(***************************************************************************)
(* C12.  Tokens are compared without regard to case: with requests served  *)
(* one at a time, an /update or /delete that carries an upper/lower-case   *)
(* variant of a token /create returned resolves what the token itself      *)
(* resolves.  The code does not keep this: the regular expression accepts  *)
(* either case, but the token is then used as sent as the file name under  *)
(* tokens, and get_random_token only makes lower-case names.               *)
(***************************************************************************)
IssuedTokens == {get_random_token(n) : n \in 1..Len(issued)}

C12_TokenCaseInsensitive ==
    \A q \in BagToSet(req) :
        (/\ q.op \in {"update", "delete"}
         /\ q.pc = "get_token_entry"
         /\ toLowerCase(q.token) \in IssuedTokens) =>
            q.res = get_token_entry(fs, toLowerCase(q.token)).res

(***************************************************************************)
(* C13.  An /update whose token resolved to a hostname that               *)
(* has_hostname_entry found no marker for fails with "Invalid token", and  *)
(* no transaction is built or executed for it, whatever ip it carries.     *)
(***************************************************************************)
\* the request has run has_hostname_entry and got false
FoundNoMarker(q) ==
    /\ \E i \in 1..Len(q.fsops) : q.fsops[i].op = "access"
    /\ ~q.has

C13_OrphanedTokenRejected ==
    \A q \in Requests :
        (q.op = "update" /\ FoundNoMarker(q)) =>
            /\ q.txs = <<>>
            /\ q.pc \in {"has_hostname_entry", "done"}
            /\ q.pc = "done" => FailedWith(q, "Invalid token")

C13_Witness ==
    /\ out.op = "update"
    /\ FoundNoMarker(out)
    /\ path_join(TOKEN_DIR, out.token).segs \in TokenEntries
    /\ out.hostname = H_ab
    /\ out.ip = IP_v6
    /\ FailedWith(out, "Invalid token")

(***************************************************************************)
(* C14.  The steps of one /delete come in a fixed order: the token is      *)
(* resolved, then the delete-all transaction is executed, then the token   *)
(* entry is unlinked, then the hostname marker is unlinked.  The token     *)
(* entry is unlinked only after the transaction succeeded, the marker only *)
(* after the token entry, and once the request has unlinked the marker its *)
(* own token entry is not in the store.                                    *)
(***************************************************************************)
IsPrefix(s, t) == Len(s) <= Len(t) /\ s = SubSeq(t, 1, Len(s))

C14_DeleteOrder ==
    \A q \in Requests :
        q.op = "delete" =>
            LET tokenFile == path_join(TOKEN_DIR, q.token).segs
                markerFile == path_join(HOSTNAME_DIR, q.hostname).segs
                n == Len(q.fsops)
            IN  /\ IsPrefix(q.fsops, << [op |-> "readFile", path |-> tokenFile],
                                        [op |-> "unlink", path |-> tokenFile],
                                        [op |-> "unlink", path |-> markerFile] >>)
                /\ Len(q.txs) <= 1
                /\ q.txs # <<>> => n >= 1 /\ IsDeleteAllScript(q.txs[1].input, q.hostname)
                /\ n >= 2 => Len(q.txs) = 1 /\ q.txs[1].settled.ok
                /\ n >= 3 => tokenFile \notin DOMAIN fs
                /\ Succeeded(q) => n = 3

C14_Witness ==
    /\ out.op = "delete"
    /\ Succeeded(out)
    /\ out.hostname = H_ab
    /\ Len(out.fsops) = 3
    /\ ~has_hostname_entry(fs, H_ab)

(***************************************************************************)
(* C15.  With a fair event loop, every /create, /update and /delete        *)
(* request that is in flight eventually ends with its one response,        *)
(* whatever other requests are in flight with it.                          *)
(***************************************************************************)
Responded(c) ==
    /\ out.pc = "done"
    /\ out.op = c[1]
    /\ Key(out) = c[2]
    /\ Len(out.resp) = 1

C15_EveryRequestResponds == \A c \in Names : InFlight(c) ~> Responded(c)

C15_Witness ==
    /\ Responded(<<"delete", get_random_token(1)>>)
    /\ Succeeded(out)
    /\ InFlight(<<"update", get_random_token(1)>>)

(***************************************************************************)
(* C16.  Every hostname /create stores, as the content of a token entry    *)
(* and as the name of a marker, is a validated hostname: lower case, 2 to  *)
(* 63 characters of the label pattern; a /create whose hostname fails      *)
(* validation writes nothing.  The code does not keep this: service_create *)
(* never calls validate_hostname and hands the hostname as sent to         *)
(* add_token_entry and add_hostname_entry.                                 *)
(***************************************************************************)
C16_StoredHostnamesValid ==
    /\ \A t \in TokenEntries : ValidHostname(fs[t])
    /\ \A m \in HostnameMarkers : ValidHostname(m[2])
    /\ \A q \in Requests :
          (q.op = "create" /\ ~validate_hostname(q.hostname).ok) => StoreWrites(q) = {}

(***************************************************************************)
(* C17.  Isolation, with requests served one at a time: an /update or      *)
(* /delete carrying a token that /create returned executes no transaction  *)
(* on the DNS name of the live binding of another token, and does not      *)
(* unlink the marker of that binding.  The code does not keep this:        *)
(* /create accepts "ab " next to "ab", get_token_entry trims what was      *)
(* stored, and so the token of "ab " acts on the name and the marker of    *)
(* "ab".                                                                   *)
(***************************************************************************)
\* the n-th token drawn was returned by its /create: both writes succeed
\* (the second fails only when the hostname names a path outside hostnames)
Returned(n) ==
    /\ n \in 1..Len(issued)
    /\ fs_canWrite(fs, path_join(HOSTNAME_DIR, issued[n]))

\* the binding of the n-th token is live
LiveBinding(n) ==
    /\ Returned(n)
    /\ get_random_token(n) \notin deleted
    /\ path_join(TOKEN_DIR, get_random_token(n)).segs \in TokenEntries

RecordLines(input) ==
    {k \in 1..Len(input) : input[k].kind \in {"update delete", "update add"}}

\* the names on the record lines of the transactions request q executed
NamesTouched(q) ==
    UNION { {q.txs[i].input[j].name : j \in RecordLines(q.txs[i].input)} : i \in 1..Len(q.txs) }

Unlinked(q) == {q.fsops[i].path : i \in {k \in 1..Len(q.fsops) : q.fsops[k].op = "unlink"}}

C17_Isolation ==
    \A q \in Requests :
        q.op \in {"update", "delete"} =>
            \A m, n \in 1..Len(issued) :
                (/\ q.token = get_random_token(m)
                 /\ Returned(m)
                 /\ n # m
                 /\ LiveBinding(n)) =>
                    /\ Fqdn(toLowerCase(issued[n])) \notin NamesTouched(q)
                    /\ path_join(HOSTNAME_DIR, issued[n]).segs \notin Unlinked(q)

(***************************************************************************)
(* C18.  In every state with no request in flight, each A or AAAA record   *)
(* the agent holds is for a hostname that has a marker; so when a /delete  *)
(* and an /update for one token overlap and both have ended, the /delete   *)
(* with success, no record of the deleted hostname is left.  The code does *)
(* not keep this: /update checks the marker, and only after a further      *)
(* await executes its transaction; a /delete that runs in between removes  *)
(* records and marker, and the /update then adds the record again.         *)
(***************************************************************************)
C18_NoStaleRecords ==
    req = EmptyBag =>
        \A rr \in dns : \E m \in HostnameMarkers : rr.name = Fqdn(toLowerCase(m[2]))

(***************************************************************************)
(* C19.  No hostname stays claimed for good: in every state with no        *)
(* request in flight, each marker can be removed by a /delete of some      *)
(* token in the store (the agent succeeding), and each token /create       *)
(* returned that has not been deleted serves a successful /update and a    *)
(* successful /delete.  The code does not keep this: /create accepts a     *)
(* hostname such as "./ab", which claims the marker "ab" under a token     *)
(* whose stored hostname delete_records and create_a_record reject.        *)
(***************************************************************************)
\* what a /delete of the token, served alone with the agent exiting 0, does
DeleteSucceeds(token) ==
    LET g == get_token_entry(fs, token).res
        d == delete_token_entry(fs, token)
    IN  /\ g.ok
        /\ delete_records(g.val).ok
        /\ d.res.ok
        /\ delete_hostname_entry(d.fs, g.val).res.ok

DeleteFrees(token, marker) ==
    /\ DeleteSucceeds(token)
    /\ path_join(HOSTNAME_DIR, get_token_entry(fs, token).res.val).segs = marker

\* what an /update of the token with an IPv4 address, served alone, does
UpdateSucceeds(token) ==
    LET g == get_token_entry(fs, token).res
    IN  /\ g.ok
        /\ has_hostname_entry(fs, g.val)
        /\ create_a_record(g.val, IP_v4).ok

C19_NeverPermanentlyClaimed ==
    req = EmptyBag =>
        /\ \A m \in HostnameMarkers : \E t \in TokenEntries : DeleteFrees(t[2], m)
        /\ \A n \in 1..Len(issued) :
              LiveBinding(n) =>
                  UpdateSucceeds(get_random_token(n)) /\ DeleteSucceeds(get_random_token(n))

(***************************************************************************)
(* C20.  With requests served one at a time, a /create or /delete that     *)
(* ends with an error leaves the store as it found it: the token entry a   *)
(* failed /create wrote is not in the store, and the token entry a failed  *)
(* /delete looked up is still there.  The code does not keep this: each    *)
(* handler changes the tokens namespace first and the hostnames namespace  *)
(* in a later step, and does not undo the first when the second rejects.   *)
(***************************************************************************)
C20_FailedRequestLeavesStore ==
    \A q \in Completed :
        Failed(q) =>
            /\ (q.op = "create" /\ Truthy(q.token)) =>
                  path_join(TOKEN_DIR, q.token).segs \notin DOMAIN fs
            /\ (q.op = "delete" /\ Len(q.fsops) >= 2) =>
                  path_join(TOKEN_DIR, q.token).segs \in DOMAIN fs

====
